---- MODULE Spec2Model ----
(***************************************************************************)
(* A model of the multi-producer single-consumer channel of src/lib.rs:    *)
(* the mutex-guarded Inner {queue, senders}, the Condvar `available`, the  *)
(* Sender handles (clone / send / drop) and the Receiver (recv with its    *)
(* private buffer).  Every Sender handle and the Receiver is a process;    *)
(* each step is one of: a lock acquisition, the critical section up to the *)
(* unlock, the notify after the unlock.                                    *)
(***************************************************************************)
EXTENDS Integers, Sequences, FiniteSets, TLC

\* Number of Sender handles that can ever exist (the original and clones).
MaxHandles == 2
\* Number of values sent over the channel in all.
MaxVals == 3

\* The Receiver's thread id; the Sender handles are 1..MaxHandles.
RX == 0
Handles == 1..MaxHandles
Threads == Handles \cup {RX}

VARIABLES
    queue,      \* Inner.queue: the shared VecDeque
    senders,    \* Inner.senders
    buffer,     \* Receiver.buffer: the private VecDeque
    mutex,      \* the set of threads holding Shared.inner's lock
    arc,        \* strong count of the Arc<Shared<T>>
    rxpc,       \* where the Receiver is: idle, crit, wait, woken, dropped
    tpc,        \* where each Sender handle is
    parent,     \* for a handle being cloned: the handle borrowed by clone(&self)
    nsent,      \* number of send calls each handle issued
    sent,       \* history: the values in the order push_back appended them
    received,   \* history: the values recv returned, in order
    lastRet,    \* history: what the most recent recv call returned
    exhausted,  \* history: some recv call returned None
    late,       \* history: the values whose send was issued after the Receiver
                \* was dropped
    closedAt,   \* history: how many values recv had returned when senders
                \* became 0
    notified,   \* history: number of notify_one calls made
    viaBuffer   \* history: the most recent recv returned from the private
                \* buffer, without taking the lock

vars == <<queue, senders, buffer, mutex, arc, rxpc, tpc, parent, nsent,
          sent, received, lastRet, exhausted, late, closedAt, notified, viaBuffer>>

\* Option<T> as recv returns it, and "no recv has returned yet".
NoRet == [tag |-> "NoRet"]
None == [tag |-> "None"]
Some(v) == [tag |-> "Some", val |-> v]

----------------------------------------------------------------------------
\* VecDeque operations

\* push_front in place of push_back.
push_front(q, v) == <<v>> \o q

push_back(q, v) == Append(q, v)

\* pop_back in place of pop_front.
pop_back(q) == <<q[Len(q)], SubSeq(q, 1, Len(q) - 1)>>

\* VecDeque::pop_front on a non-empty deque: <<the value popped, what is left>>.
pop_front(q) == <<Head(q), Tail(q)>>

is_empty(q) == q = << >>

\* self.buffer = inner.queue.clone(): the backlog is copied, not moved.
swap_copies(q, b) == <<q, q>>

\* inner.queue = mem::take(&mut self.buffer): the backlog is overwritten, not
\* moved into the buffer.
swap_overwrite(q, b) == <<b, b>>

\* std::mem::swap(&mut inner.queue, &mut self.buffer): the pair
\* <<new queue, new buffer>>.
swap(q, b) == <<b, q>>

----------------------------------------------------------------------------
\* The counter and the condition variable

\* clone without the increment.
clone_forgets(n) == n

clone_senders(n) == n + 1

\* drop without the decrement.
drop_forgets(n) == n

drop_senders(n) == n - 1

\* A notify on every drop.
was_last_always(n) == TRUE

\* was_last compared with the count before the decrement.
was_last_off_by_one(n) == n = 1

was_last(n) == n = 0

\* Variants of the exhaustion test: off by one, the wrong count, never.
no_senders_off_by_one(n) == n <= 1

no_senders_wrong(n) == n = 1

no_senders_never(n) == FALSE

\* recv's second match arm: None if inner.senders == 0.
no_senders(n) == n = 0

\* The arms of recv's match tried in the wrong order: the senders test first.
recv_arm_senders_first(q, n) ==
    IF no_senders(n) THEN "none" ELSE IF ~is_empty(q) THEN "some" ELSE "wait"

\* The arm recv's match takes on inner.queue.pop_front(): Some(t) => ...,
\* None if inner.senders == 0 => ..., None => wait.
recv_arm(q, n) ==
    IF ~is_empty(q) THEN "some" ELSE IF no_senders(n) THEN "none" ELSE "wait"

\* A wait that parks without giving up the lock.
wait_keeps_lock(m) == m

\* Condvar::wait(inner) unlocks the mutex of the guard it is given.
wait_unlock(m) == m \ {RX}

\* A notify that wakes nobody.
notify_lost(pc) == pc

\* Condvar::notify_one: the one possible waiter is the Receiver; a notify
\* with no thread parked is lost.
notify_one(pc) == IF pc = "wait" THEN "woken" ELSE pc

\* The value of the k-th send of handle h.
Value(h, k) == <<h, k>>

\* Dropping one Arc<Shared<T>>: the last one frees Shared and its queue.
arc_drop_queue(n, q) == IF n - 1 = 0 THEN << >> ELSE q

\* A handle that clone(&self) currently borrows cannot be sent on (&mut self)
\* nor dropped.
Borrowed(p) == \E h \in Handles : tpc[h] = "clone_crit" /\ parent[h] = p

\* A handle that does not count any more: never made, or its drop has
\* decremented senders.
Destroyed(h) == tpc[h] \in {"unborn", "drop_notify", "dead"}

AllDestroyed == \A h \in Handles : Destroyed(h)

\* The handles that exist: made by channel() or being made by clone(), and
\* whose drop has not yet decremented senders.
LiveSenders == {h \in Handles : ~Destroyed(h)}

\* The values of the send calls made so far.
AllIssued == {v \in Handles \X (1..MaxVals) : v[2] <= nsent[v[1]]}

Issued == Cardinality(AllIssued)

----------------------------------------------------------------------------
\* channel()
Init ==
    /\ queue = << >>
    /\ senders = 1
    /\ buffer = << >>
    /\ mutex = {}
    /\ arc = 2
    /\ rxpc = "idle"
    /\ tpc = [h \in Handles |-> IF h = 1 THEN "idle" ELSE "unborn"]
    /\ parent = [h \in Handles |-> 0]
    /\ nsent = [h \in Handles |-> 0]
    /\ sent = << >>
    /\ received = << >>
    /\ lastRet = NoRet
    /\ exhausted = FALSE
    /\ late = {}
    /\ closedAt = 0
    /\ notified = 0
    /\ viaBuffer = FALSE

----------------------------------------------------------------------------
\* Sender::send

\* self.shared.inner.lock(): the call returns once the lock is free.
SendLock(h) ==
    /\ tpc[h] = "idle"
    /\ ~Borrowed(h)
    /\ Issued < MaxVals
    /\ mutex = {}
    /\ mutex' = mutex \cup {h}
    /\ nsent' = [nsent EXCEPT ![h] = @ + 1]
    /\ tpc' = [tpc EXCEPT ![h] = "send_crit"]
    /\ late' = IF rxpc = "dropped" THEN late \cup {Value(h, nsent[h] + 1)} ELSE late
    /\ UNCHANGED <<queue, senders, buffer, arc, rxpc, parent,
                   sent, received, lastRet, exhausted, closedAt, notified, viaBuffer>>

\* inner.queue.push_back(value); drop(inner);
SendPush(h) ==
    /\ tpc[h] = "send_crit"
    /\ queue' = push_back(queue, Value(h, nsent[h]))
    /\ sent' = Append(sent, Value(h, nsent[h]))
    /\ mutex' = mutex \ {h}
    /\ tpc' = [tpc EXCEPT ![h] = "send_notify"]
    /\ UNCHANGED <<senders, buffer, arc, rxpc, parent, nsent,
                   received, lastRet, exhausted, late, closedAt, notified, viaBuffer>>

\* self.shared.available.notify_one();
SendNotify(h) ==
    /\ tpc[h] = "send_notify"
    /\ rxpc' = notify_one(rxpc)
    /\ notified' = notified + 1
    /\ tpc' = [tpc EXCEPT ![h] = "idle"]
    /\ UNCHANGED <<queue, senders, buffer, mutex, arc, parent, nsent,
                   sent, received, lastRet, exhausted, late, closedAt, viaBuffer>>

----------------------------------------------------------------------------
\* Sender::clone: the new handle h is made from the borrowed handle p.

\* self.shared.inner.lock()
CloneLock(p, h) ==
    /\ tpc[p] = "idle"
    /\ tpc[h] = "unborn"
    /\ \A g \in Handles : g < h => tpc[g] # "unborn"
    /\ mutex = {}
    /\ mutex' = mutex \cup {h}
    /\ tpc' = [tpc EXCEPT ![h] = "clone_crit"]
    /\ parent' = [parent EXCEPT ![h] = p]
    /\ UNCHANGED <<queue, senders, buffer, arc, rxpc, nsent,
                   sent, received, lastRet, exhausted, late, closedAt, notified, viaBuffer>>

\* inner.senders += 1; Arc::clone(&self.shared); the guard is dropped on return
CloneInc(h) ==
    /\ tpc[h] = "clone_crit"
    /\ senders' = clone_senders(senders)
    /\ arc' = arc + 1
    /\ mutex' = mutex \ {h}
    /\ tpc' = [tpc EXCEPT ![h] = "idle"]
    /\ parent' = [parent EXCEPT ![h] = 0]
    /\ UNCHANGED <<queue, buffer, rxpc, nsent,
                   sent, received, lastRet, exhausted, late, closedAt, notified, viaBuffer>>

----------------------------------------------------------------------------
\* Drop for Sender

\* self.shared.inner.lock()
DropLock(h) ==
    /\ tpc[h] = "idle"
    /\ ~Borrowed(h)
    /\ mutex = {}
    /\ mutex' = mutex \cup {h}
    /\ tpc' = [tpc EXCEPT ![h] = "drop_crit"]
    /\ UNCHANGED <<queue, senders, buffer, arc, rxpc, parent, nsent,
                   sent, received, lastRet, exhausted, late, closedAt, notified, viaBuffer>>

\* inner.senders -= 1; let was_last = inner.senders == 0; drop(inner);
\* a drop that was not the last returns here, and the handle's field `shared`
\* (its Arc) is dropped.
DropDec(h) ==
    /\ tpc[h] = "drop_crit"
    /\ senders' = drop_senders(senders)
    /\ mutex' = mutex \ {h}
    /\ IF was_last(senders')
       THEN /\ tpc' = [tpc EXCEPT ![h] = "drop_notify"]
            /\ UNCHANGED <<arc, queue>>
       ELSE /\ tpc' = [tpc EXCEPT ![h] = "dead"]
            /\ arc' = arc - 1
            /\ queue' = arc_drop_queue(arc, queue)
    /\ closedAt' = IF \A g \in Handles \ {h} : Destroyed(g)
                   THEN Len(received) ELSE closedAt
    /\ UNCHANGED <<buffer, rxpc, parent, nsent,
                   sent, received, lastRet, exhausted, late, notified, viaBuffer>>

\* if was_last { self.shared.available.notify_one(); } and then the handle's
\* field `shared` (its Arc) is dropped.
DropNotify(h) ==
    /\ tpc[h] = "drop_notify"
    /\ rxpc' = notify_one(rxpc)
    /\ notified' = notified + 1
    /\ arc' = arc - 1
    /\ queue' = arc_drop_queue(arc, queue)
    /\ tpc' = [tpc EXCEPT ![h] = "dead"]
    /\ UNCHANGED <<senders, buffer, mutex, parent, nsent,
                   sent, received, lastRet, exhausted, late, closedAt, viaBuffer>>

----------------------------------------------------------------------------
\* Receiver::recv

\* if let Some(t) = self.buffer.pop_front() { return Some(t); }
RecvFast ==
    /\ rxpc = "idle"
    /\ ~is_empty(buffer)
    /\ buffer' = pop_front(buffer)[2]
    /\ received' = Append(received, pop_front(buffer)[1])
    /\ lastRet' = Some(pop_front(buffer)[1])
    /\ viaBuffer' = TRUE
    /\ UNCHANGED <<queue, senders, mutex, arc, rxpc, tpc, parent, nsent,
                   sent, exhausted, late, closedAt, notified>>

\* The buffer is empty: self.shared.inner.lock().
RecvLock ==
    /\ rxpc = "idle"
    /\ is_empty(buffer)
    /\ mutex = {}
    /\ mutex' = mutex \cup {RX}
    /\ rxpc' = "crit"
    /\ UNCHANGED <<queue, senders, buffer, arc, tpc, parent, nsent,
                   sent, received, lastRet, exhausted, late, closedAt, notified, viaBuffer>>

\* One turn of the loop: the match on inner.queue.pop_front().
RecvMatch ==
    /\ rxpc = "crit"
    /\ IF recv_arm(queue, senders) = "some"
       THEN /\ IF ~is_empty(pop_front(queue)[2])
               THEN /\ queue' = swap(pop_front(queue)[2], buffer)[1]
                    /\ buffer' = swap(pop_front(queue)[2], buffer)[2]
               ELSE /\ queue' = pop_front(queue)[2]
                    /\ buffer' = buffer
            /\ received' = Append(received, pop_front(queue)[1])
            /\ lastRet' = Some(pop_front(queue)[1])
            /\ viaBuffer' = FALSE
            /\ mutex' = mutex \ {RX}
            /\ rxpc' = "idle"
            /\ UNCHANGED exhausted
       ELSE IF recv_arm(queue, senders) = "none"
       THEN /\ lastRet' = None
            /\ viaBuffer' = FALSE
            /\ exhausted' = TRUE
            /\ mutex' = mutex \ {RX}
            /\ rxpc' = "idle"
            /\ UNCHANGED <<queue, buffer, received>>
       ELSE \* Condvar::wait: unlock and park, atomically
            /\ mutex' = wait_unlock(mutex)
            /\ rxpc' = "wait"
            /\ UNCHANGED <<queue, buffer, received, lastRet, exhausted, viaBuffer>>
    /\ UNCHANGED <<senders, arc, tpc, parent, nsent, sent, late, closedAt, notified>>

\* Condvar::wait may return without a notify.
SpuriousWake ==
    /\ rxpc = "wait"
    /\ rxpc' = "woken"
    /\ UNCHANGED <<queue, senders, buffer, mutex, arc, tpc, parent, nsent,
                   sent, received, lastRet, exhausted, late, closedAt, notified, viaBuffer>>

\* Condvar::wait re-acquires the lock before it returns.
RecvRelock ==
    /\ rxpc = "woken"
    /\ mutex = {}
    /\ mutex' = mutex \cup {RX}
    /\ rxpc' = "crit"
    /\ UNCHANGED <<queue, senders, buffer, arc, tpc, parent, nsent,
                   sent, received, lastRet, exhausted, late, closedAt, notified, viaBuffer>>

\* The Receiver goes out of scope between two recv calls: its buffer and its
\* Arc are dropped.
DropReceiver ==
    /\ rxpc = "idle"
    /\ rxpc' = "dropped"
    /\ buffer' = << >>
    /\ arc' = arc - 1
    /\ queue' = arc_drop_queue(arc, queue)
    /\ UNCHANGED <<senders, mutex, tpc, parent, nsent,
                   sent, received, lastRet, exhausted, late, closedAt, notified, viaBuffer>>

----------------------------------------------------------------------------
Next ==
    \/ \E h \in Handles : SendLock(h)
    \/ \E h \in Handles : SendPush(h)
    \/ \E h \in Handles : SendNotify(h)
    \/ \E p, h \in Handles : CloneLock(p, h)
    \/ \E h \in Handles : CloneInc(h)
    \/ \E h \in Handles : DropLock(h)
    \/ \E h \in Handles : DropDec(h)
    \/ \E h \in Handles : DropNotify(h)
    \/ RecvFast
    \/ RecvLock
    \/ RecvMatch
    \/ SpuriousWake
    \/ RecvRelock
    \/ DropReceiver

Spec == Init /\ [][Next]_vars

\* Iterator::next is self.recv(): one pull is one recv call.
IteratorNext == RecvFast \/ RecvLock \/ RecvMatch \/ RecvRelock

\* The steps a thread takes once it is inside a call; the scheduler runs every
\* thread that can run.  Starting a call, dropping the Receiver and a spurious
\* wakeup are not guaranteed to happen.
Fairness ==
    /\ \A h \in Handles : WF_vars(SendPush(h))
    /\ \A h \in Handles : WF_vars(SendNotify(h))
    /\ \A h \in Handles : WF_vars(CloneInc(h))
    /\ \A h \in Handles : WF_vars(DropDec(h))
    /\ \A h \in Handles : WF_vars(DropNotify(h))
    /\ WF_vars(RecvMatch)
    /\ WF_vars(RecvRelock)

FairSpec == Spec /\ Fairness

----------------------------------------------------------------------------
\* Vocabulary of the properties

Range(q) == {q[i] : i \in 1..Len(q)}

IsPrefix(p, q) == Len(p) <= Len(q) /\ SubSeq(q, 1, Len(p)) = p

IsSuffix(p, q) == Len(p) <= Len(q) /\ SubSeq(q, Len(q) - Len(p) + 1, Len(q)) = p

\* A step in which a recv call returns.
Returned ==
    \/ rxpc = "crit" /\ rxpc' = "idle"
    \/ rxpc = "idle" /\ received' # received

\* A step in which a recv call parks on the condition variable.
Suspends == rxpc # "wait" /\ rxpc' = "wait"

----------------------------------------------------------------------------
\* C1: the values recv has returned so far are always a prefix of the order
\* in which push_back appended the sent values to the shared queue, also
\* when values are served from the private buffer while others are enqueued.
C1_RecvIsPrefixOfSent == IsPrefix(received, sent)

\* A value was returned, a value moved by that recv is still in the private
\* buffer, and a newer one has been appended to the shared queue.
C1_Witness == Len(received) >= 1 /\ ~is_empty(buffer) /\ ~is_empty(queue)

\* C2: when recv reports exhaustion, every value of every send call has been
\* returned exactly once: none lost, none duplicated.
C2_ExactlyOnce ==
    exhausted => /\ Range(received) = AllIssued
                 /\ Len(received) = Issued
                 /\ received = sent

\* Two handles have sent, three values in all, all handles are gone and recv
\* has returned the three values and then None.
C2_Witness ==
    /\ exhausted
    /\ Cardinality({h \in Handles : nsent[h] >= 1}) >= 2
    /\ Len(received) >= 3

\* C3: a recv call never returns None while a Sender handle, original or
\* clone, is alive.
C3_NoExhaustionWhileSenderAlive ==
    [][(Returned /\ lastRet' = None) => LiveSenders = {}]_vars

\* The original is destroyed, its clone is alive, and the Receiver is parked
\* on an empty queue instead of having reported exhaustion.
C3_Witness ==
    /\ MaxHandles >= 2
    /\ tpc[1] = "dead"
    /\ tpc[2] = "idle"
    /\ rxpc = "wait"
    /\ is_empty(queue)

\* C4: once every Sender handle is destroyed no recv call parks, each recv
\* call returns the next undelivered value, and None once all are delivered.
C4_DrainThenExhausted ==
    [][AllDestroyed /\ rxpc # "dropped" =>
          /\ rxpc # "wait" => rxpc' # "wait"
          /\ Returned =>
               IF Len(received) < Len(sent)
               THEN /\ lastRet' = Some(sent[Len(received) + 1])
                    /\ received' = Append(received, sent[Len(received) + 1])
               ELSE /\ lastRet' = None
                    /\ received' = received]_vars

\* All handles are destroyed, values were delivered after that, and recv
\* then returned None.
C4_Witness ==
    /\ AllDestroyed
    /\ exhausted
    /\ lastRet = None
    /\ Len(received) > closedAt

\* C5 as stated: in a state where senders is 0 and the shared queue is
\* empty, a recv call returns None and does not park.
C5_Original ==
    [][senders = 0 /\ is_empty(queue) =>
          /\ Returned => lastRet' = None /\ received' = received
          /\ rxpc # "wait" => rxpc' # "wait"]_vars

\* C5 amended: in a state where senders is 0, the shared queue is empty and
\* the Receiver's private buffer is empty, a recv call returns None and does
\* not park.
C5_ClosedRecvReturnsNone ==
    [][senders = 0 /\ is_empty(queue) /\ is_empty(buffer) =>
          /\ Returned => lastRet' = None /\ received' = received
          /\ rxpc # "wait" => rxpc' # "wait"]_vars

\* A recv call has returned None with senders 0 and both deques empty.
C5_Witness ==
    /\ senders = 0
    /\ is_empty(queue)
    /\ is_empty(buffer)
    /\ rxpc = "idle"
    /\ lastRet = None

\* C6: once a recv call (an iterator pull) has returned None, every later
\* one returns None, and the Receiver never parks again.
C6_ExhaustionIsPermanent ==
    exhausted => lastRet = None /\ rxpc \notin {"wait", "woken"}

\* A recv call made after exhaustion was reported holds the lock.
C6_Witness == exhausted /\ rxpc = "crit" /\ RX \in mutex

\* C7: a Receiver parked on the condition variable while a send has appended
\* a value eventually returns from recv with a value, and the return of a
\* recv call that finds the queue non-empty is the front value.
C7_BlockedRecvGetsValue ==
    /\ (rxpc = "wait" /\ ~is_empty(queue))
          ~> (rxpc = "idle" /\ lastRet.tag = "Some")
    /\ [][(rxpc \in {"wait", "woken", "crit"} /\ ~is_empty(queue) /\ Returned)
             => lastRet' = Some(Head(queue))]_vars

\* The Receiver is parked, a send has appended its value and released the
\* lock, and its notify_one is still to come.
C7_Witness ==
    /\ rxpc = "wait"
    /\ ~is_empty(queue)
    /\ \E h \in Handles : tpc[h] = "send_notify"

\* C8: a Receiver parked with an empty queue when the last Sender handle is
\* destroyed eventually returns None.
C8_BlockedRecvGetsExhausted ==
    (rxpc = "wait" /\ is_empty(queue) /\ AllDestroyed)
        ~> (rxpc = "idle" /\ lastRet = None /\ exhausted)

\* The Receiver is parked on an empty queue, two handles have been destroyed,
\* and the one whose decrement reached 0 has not yet notified.
C8_Witness ==
    /\ rxpc = "wait"
    /\ is_empty(queue)
    /\ AllDestroyed
    /\ \E h \in Handles : tpc[h] = "drop_notify"
    /\ \E h \in Handles : tpc[h] = "dead"

\* C9 as stated: a recv call parks exactly when the shared queue is empty
\* and senders is above 0.
C9_Original ==
    [][(Returned \/ Suspends) =>
          (Suspends <=> (is_empty(queue) /\ senders > 0))]_vars

\* C9 amended: a recv call parks exactly when its private buffer is empty
\* and, under the lock, the shared queue is empty and senders is above 0.
C9_SuspendsIffNothingBufferedOrQueued ==
    [][(Returned \/ Suspends) =>
          (Suspends <=> (is_empty(buffer) /\ is_empty(queue) /\ senders > 0))]_vars

\* The Receiver is parked with both deques empty and a live Sender handle.
C9_Witness ==
    /\ rxpc = "wait"
    /\ is_empty(buffer)
    /\ is_empty(queue)
    /\ senders > 0
    /\ mutex = {}

\* C10: a send issued after the Receiver was dropped runs as any other send:
\* its value is appended at the tail of the shared queue, stays there while
\* Shared exists, and is never returned by recv.
C10_SendAfterReceiverDropped ==
    rxpc = "dropped" =>
        /\ \A v \in late :
              /\ v \notin Range(received)
              /\ tpc[v[1]] \in {"send_crit"} /\ nsent[v[1]] = v[2]
                    => v \notin Range(queue)
              /\ (arc > 0 /\ ~(tpc[v[1]] = "send_crit" /\ nsent[v[1]] = v[2]))
                    => v \in Range(queue)
        /\ arc > 0 => IsSuffix(queue, sent)

\* The Receiver is dropped, a send issued after that has completed, and its
\* value lies in the shared queue.
C10_Witness ==
    /\ rxpc = "dropped"
    /\ \E v \in late : v \in Range(queue) /\ tpc[v[1]] = "idle"

\* C11: every send call completes: the mutex it has to wait for is always
\* released again, a send that holds the mutex can always take its next step
\* (push and unlock, then notify) whatever the queue and the Receiver are, a
\* Receiver parked in recv does not hold the mutex, and no Sender operation
\* is ever parked on the condition variable.
C11_SendCompletes ==
    /\ (mutex # {}) ~> (mutex = {})
    /\ [](\A h \in Handles :
             /\ tpc[h] = "send_crit" => ENABLED SendPush(h)
             /\ tpc[h] = "send_notify" => ENABLED SendNotify(h))
    /\ [](rxpc \in {"wait", "woken"} => RX \notin mutex)
    /\ [](\A h \in Handles :
             tpc[h] \in {"unborn", "idle", "send_crit", "send_notify",
                         "clone_crit", "drop_crit", "drop_notify", "dead"})

\* A send has taken the mutex while the Receiver is parked in recv and the
\* queue already holds a value.
C11_Witness ==
    /\ rxpc = "wait"
    /\ queue # << >>
    /\ \E h \in Handles : tpc[h] = "send_crit" /\ mutex = {h}

\* C12: while a sent value is still in the shared queue or in the private
\* buffer, a recv call does not park and what it returns is a value, whether
\* or not Sender handles are alive.
C12_PendingValueIsReturned ==
    [][(queue # << >> \/ buffer # << >>) =>
          /\ ~Suspends
          /\ Returned => lastRet'.tag = "Some"]_vars

\* send(v) on a fresh channel, then recv returned v through the lock, with
\* the Sender still alive.
C12_Witness ==
    /\ sent = <<Value(1, 1)>>
    /\ received = <<Value(1, 1)>>
    /\ lastRet = Some(Value(1, 1))
    /\ ~viaBuffer
    /\ tpc[1] = "idle"
    /\ senders = 1

\* C13: senders is 1 and the queue empty at creation; whenever the mutex is
\* free senders is the number of live Sender handles; clone adds one, drop
\* takes one away, and senders never goes below 0.
C13_SendersCountsLiveHandles ==
    /\ senders = 1 /\ queue = << >>
    /\ [](mutex = {} => senders = Cardinality(LiveSenders))
    /\ [](senders >= 0)
    /\ [][/\ (\E h \in Handles : tpc[h] = "clone_crit" /\ tpc'[h] # "clone_crit")
               => senders' = senders + 1
          /\ (\E h \in Handles : tpc[h] = "drop_crit" /\ tpc'[h] # "drop_crit")
               => senders' = senders - 1
          /\ senders' # senders
               => \E h \in Handles : /\ tpc[h] \in {"clone_crit", "drop_crit"}
                                     /\ tpc'[h] # tpc[h]]_vars

\* The original handle was cloned and then destroyed; the clone is the one
\* live handle and the mutex is free.
C13_Witness ==
    /\ MaxHandles >= 2
    /\ tpc[1] = "dead"
    /\ tpc[2] \in {"idle", "send_notify"}
    /\ senders = 1
    /\ mutex = {}

\* C14: once senders is 0 it stays 0: no clone increments it again and no
\* value is appended to the shared queue any more.
C14_ZeroIsFinal ==
    [][senders = 0 =>
          /\ senders' = 0
          /\ sent' = sent
          /\ Len(queue') <= Len(queue)]_vars

\* senders is 0 after two handles were destroyed, values were sent, and the
\* Receiver is still taking them.
C14_Witness ==
    /\ senders = 0
    /\ \A h \in Handles : tpc[h] = "dead"
    /\ sent # << >>
    /\ ~exhausted
    /\ rxpc = "crit"

\* The send calls that have made their notify_one.
CompletedSends == Len(sent) - Cardinality({h \in Handles : tpc[h] = "send_notify"})

\* 1 once the drop that destroyed the last handle has made its notify_one.
ZeroDropDone ==
    IF AllDestroyed /\ \A h \in Handles : tpc[h] # "drop_notify" THEN 1 ELSE 0

\* C15: notify_one is called once by every send, after its push and its
\* unlock, once by the drop whose decrement made senders 0, after its unlock,
\* and by nothing else: not by a drop that leaves senders above 0, not by
\* clone, not by recv.
C15_WhoNotifies ==
    /\ [](notified = CompletedSends + ZeroDropDone)
    /\ [][notified' # notified =>
             /\ notified' = notified + 1
             /\ mutex' = mutex
             /\ \E h \in Handles :
                   /\ h \notin mutex
                   /\ \/ /\ tpc[h] = "send_notify" /\ tpc'[h] = "idle"
                         /\ Value(h, nsent[h]) \in Range(sent)
                      \/ /\ tpc[h] = "drop_notify" /\ tpc'[h] = "dead"
                         /\ senders = 0
                         /\ AllDestroyed]_vars

\* Two handles were destroyed and a value was sent: one notify for the send
\* and one for the drop that made senders 0, none for the other drop.
C15_Witness ==
    /\ \A h \in Handles : tpc[h] = "dead"
    /\ Len(sent) = 1
    /\ notified = 2

\* C16: a recv that holds the lock and finds k >= 2 values returns the front
\* one and, in the same step, leaves the k-1 others in order in the private
\* buffer and the shared queue empty; with k = 1 it returns the value and
\* leaves both deques empty.
C16_BatchMove ==
    [][(rxpc = "crit" /\ queue # << >> /\ rxpc' # rxpc) =>
          /\ rxpc' = "idle"
          /\ RX \notin mutex'
          /\ lastRet' = Some(Head(queue))
          /\ received' = Append(received, Head(queue))
          /\ buffer' = Tail(queue)
          /\ queue' = << >>]_vars

\* recv found three values under the lock: it returned one and the two
\* others are in the private buffer.
C16_Witness ==
    /\ rxpc = "idle"
    /\ ~viaBuffer
    /\ lastRet.tag = "Some"
    /\ Len(buffer) >= 2
    /\ queue = << >>

\* C17: a recv call made with a non-empty private buffer does not take the
\* mutex; it returns the buffer's front element, removes that one element,
\* and leaves the shared queue, senders and the mutex as they were.
C17_FastPathFrame ==
    [][(rxpc = "idle" /\ buffer # << >>) =>
          /\ rxpc' # "crit"
          /\ Returned =>
                /\ lastRet' = Some(Head(buffer))
                /\ received' = Append(received, Head(buffer))
                /\ buffer' = Tail(buffer)
                /\ UNCHANGED <<queue, senders, mutex>>]_vars

\* recv returned the front of a buffer of two without the lock; the other
\* value is still buffered.
C17_Witness ==
    /\ viaBuffer
    /\ lastRet.tag = "Some"
    /\ buffer # << >>
    /\ rxpc = "idle"

\* The threads that are between a lock() and the unlock that follows it.
InCritical ==
    {h \in Handles : tpc[h] \in {"send_crit", "clone_crit", "drop_crit"}}
        \cup (IF rxpc = "crit" THEN {RX} ELSE {})

\* C18: the shared queue and senders are read and written only by a thread
\* that holds the mutex, at most one thread holds it, and a thread waiting
\* on the condition variable does not hold it.
C18_MutexGuardsInner ==
    /\ [](Cardinality(mutex) <= 1)
    /\ [](mutex = InCritical)
    /\ [](rxpc = "wait" => RX \notin mutex)
    /\ [][((queue' # queue \/ senders' # senders) /\ arc' > 0) =>
             \E t \in mutex : /\ t \in InCritical
                              /\ t \notin mutex']_vars

\* A send holds the mutex while the Receiver, woken, waits to take it again.
C18_Witness ==
    /\ rxpc = "woken"
    /\ \E h \in Handles : tpc[h] = "send_crit" /\ mutex = {h}

\* C19: whenever the Receiver is parked on the condition variable while the
\* shared queue is non-empty or senders is 0, a Sender thread has unlocked
\* after its push or its last decrement and still has its notify_one to make.
C19_NoLostWakeup ==
    (rxpc = "wait" /\ (queue # << >> \/ senders = 0))
        => \E h \in Handles : tpc[h] \in {"send_notify", "drop_notify"}

\* The Receiver is parked, two values were pushed, and both sends still have
\* their notify_one to make.
C19_Witness ==
    /\ rxpc = "wait"
    /\ Len(queue) >= 2
    /\ Cardinality({h \in Handles : tpc[h] = "send_notify"}) >= 2

\* C20: the private buffer is empty whenever recv holds the lock, so the
\* swap puts nothing back into the shared queue; the values sent are, in
\* order, those returned, then those in the buffer, then those in the queue.
C20_BufferBeforeQueue ==
    /\ rxpc = "crit" => buffer = << >>
    /\ rxpc # "dropped" => sent = received \o buffer \o queue

\* After a swap the buffer holds an older value and a send has appended a
\* newer one to the shared queue.
C20_Witness ==
    /\ rxpc = "idle"
    /\ ~viaBuffer
    /\ Len(buffer) >= 1
    /\ Len(queue) >= 1

====
